---- MODULE Spec2Model ----
(***************************************************************************)
(* Model of src/target_atmel_cm4v2.c: the SAM D5x/E5x target operations of *)
(* edbg (select, deselect, erase, lock, program, verify, read, fuse) as     *)
(* sequences of DAP transport accesses.                                    *)
(*                                                                         *)
(* 32-bit words that cross the transport (register addresses, register     *)
(* values, block addresses) are pairs <<hi, lo>> of 16-bit halves, because *)
(* several of them (0xe000edf0, 0xa05f0003, 0xfffff0ff) do not fit TLC's   *)
(* integers.  The uint32_t locals addr, offs, size, row stay naturals: the *)
(* session's offset and sizes are bounded by the flash size (1 MiB), so    *)
(* none of them comes near 2^32.                                           *)
(***************************************************************************)
EXTENDS Integers, Sequences, FiniteSets, TLC

(***************************************************************************)
(* Bounds of the model.                                                    *)
(***************************************************************************)
\* not-ready answers the device may give to one poll loop
MaxSpin == 1
\* rows an image may span
MaxRows == 2

(***************************************************************************)
(* 32-bit words as <<hi, lo>>.                                             *)
(***************************************************************************)
Half == 65536

W32(n) == <<(n \div Half) % Half, n % Half>>

Word(hi, lo) == <<hi, lo>>

RECURSIVE BitAnd16(_, _)
BitAnd16(x, y) ==
  IF x = 0 \/ y = 0 THEN 0
  ELSE (x % 2) * (y % 2) + 2 * BitAnd16(x \div 2, y \div 2)

RECURSIVE BitOr16(_, _)
BitOr16(x, y) ==
  IF x = 0 THEN y
  ELSE IF y = 0 THEN x
  ELSE (IF x % 2 = 1 \/ y % 2 = 1 THEN 1 ELSE 0) + 2 * BitOr16(x \div 2, y \div 2)

And32(a, b) == <<BitAnd16(a[1], b[1]), BitAnd16(a[2], b[2])>>

Or32(a, b) == <<BitOr16(a[1], b[1]), BitOr16(a[2], b[2])>>

RECURSIVE Shl32(_, _)
Shl32(w, s) ==
  IF s = 0 THEN w
  ELSE Shl32(<<(w[1] * 2 + w[2] \div 32768) % Half, (w[2] * 2) % Half>>, s - 1)

RECURSIVE Shr32(_, _)
Shr32(w, s) ==
  IF s = 0 THEN w
  ELSE Shr32(<<w[1] \div 2, (w[1] % 2) * 32768 + w[2] \div 2>>, s - 1)

ZERO32 == <<0, 0>>

\* the value of a word as a natural; used only on words known to be small
Val(w) == w[1] * Half + w[2]

(***************************************************************************)
(* Definitions (src lines 39-84).                                          *)
(***************************************************************************)
FLASH_ADDR == 0
FLASH_ROW_SIZE == 8192
FLASH_PAGE_SIZE == 512
PAGES_IN_ERASE_BLOCK == FLASH_ROW_SIZE \div FLASH_PAGE_SIZE

USER_ROW_SIZE == 512

\* 0xe000edf0, 0xe000edfc, 0xe000ed0c
DHCSR == Word(57344, 60912)
DEMCR == Word(57344, 60924)
AIRCR == Word(57344, 60684)

\* 0x41002100, 0x41002118
DSU_CTRL_STATUS == Word(16640, 8448)
DSU_DID == Word(16640, 8472)

DSU_STATUSA_DONE == Shl32(W32(1), 8)
DSU_STATUSB_PROT == Shl32(W32(1), 16)

\* 0x41004000, 0x41004004, 0x41004010, 0x41004014
NVMCTRL_CTRLA == Word(16640, 16384)
NVMCTRL_CTRLB == Word(16640, 16388)
NVMCTRL_INTFLAG_STATUS == Word(16640, 16400)
NVMCTRL_ADDR == Word(16640, 16404)

NVMCTRL_STATUS_READY == Shl32(W32(1), 16)

NVMCTRL_CTRLA_AUTOWS == Shl32(W32(1), 2)
NVMCTRL_CTRLA_WMODE_MAN == Shl32(W32(0), 4)
NVMCTRL_CTRLA_PRM_MANUAL == Shl32(W32(3), 6)
NVMCTRL_CTRLA_CACHEDIS0 == Shl32(W32(1), 14)
NVMCTRL_CTRLA_CACHEDIS1 == Shl32(W32(1), 15)

\* 0xa501, 0xa503, 0xa512, 0xa515
NVMCTRL_CMD_EB == W32(42241)
NVMCTRL_CMD_WP == W32(42243)
NVMCTRL_CMD_UR == W32(42258)
NVMCTRL_CMD_PBC == W32(42261)

\* 0xfffff0ff
DEVICE_ID_MASK == Word(65535, 61695)
DEVICE_REV_SHIFT == 8
DEVICE_REV_MASK == W32(15)

\* the words select writes to stop the core: 0xa05f0003, 0x00000001, 0x05fa0004
DHCSR_HALT == Word(41055, 3)
DEMCR_VC_CORERESET == Word(0, 1)
AIRCR_SYSRESETREQ == Word(1530, 4)

(***************************************************************************)
(* The device table (src lines 95-100); the last entry is the sentinel.    *)
(***************************************************************************)
devices ==
  << [dsu_did |-> Word(24964, 0), name |-> "SAM E54P20A", flash_size |-> 1048576],
     [dsu_did |-> Word(24582, 0), name |-> "SAM D51P20A", flash_size |-> 1048576],
     [dsu_did |-> ZERO32,         name |-> "",            flash_size |-> 0] >>

\* static storage before any select: all zero
NoDevice == [dsu_did |-> ZERO32, name |-> "", flash_size |-> 0]

(***************************************************************************)
(* State.                                                                  *)
(***************************************************************************)
VARIABLES
  pc,              \* position of the running operation; "idle" between calls,
                   \* "exit" after error_exit
  op,              \* the operation running or last run
  called,          \* operations the caller has invoked so far
  err,             \* message of error_exit, "" while none
  report,          \* lines printed by verbose() that carry data
  trace,           \* transport accesses of the operation, in order; the
                   \* not-ready answers of a poll loop are counted in spins
  spins,           \* not-ready answers seen by the current poll loop
  busy,            \* device: an NVM command is executing
  options,         \* argument of target_select
  target_device,   \* static device_t target_device
  target_options,  \* static target_options_t target_options
  dsu_did,         \* target_select: uint32_t dsu_did
  device,          \* target_select: index of device_t *device in devices
  addr,            \* target_program / target_verify: uint32_t addr
  offs,            \* target_program / target_verify: uint32_t offs
  size,            \* target_program / target_verify: uint32_t size
  number_of_rows,  \* target_program: uint32_t number_of_rows
  row,             \* target_program: uint32_t row
  page,            \* target_program: int page
  flash,           \* device memory: the block writes received, in order
  fault,           \* device memory: addresses whose stored byte was flipped
  compared,        \* target_verify: the image ranges compared so far
  buf,             \* target_fuse: uint8_t buf[USER_ROW_SIZE]
  urow,            \* device memory: the bytes of the user row
  urow0,           \* device memory: the user row when target_fuse was called
  fuse_i           \* target_fuse: int i of the sub-page loop

vars ==
  << pc, op, called, err, report, trace, spins, busy, options, target_device,
     target_options, dsu_did, device, addr, offs, size, number_of_rows, row,
     page, flash, fault, compared, buf, urow, urow0, fuse_i >>

fuseVars == << buf, urow, urow0, fuse_i >>

selVars == << options, target_device, target_options, dsu_did, device >>

progVars == << addr, offs, size, number_of_rows, row, page >>

memVars == << flash, fault >>

(***************************************************************************)
(* Transport accesses (dap.h) as they appear in trace.                     *)
(***************************************************************************)
WriteWord(a, v) ==
  [op |-> "write_word", addr |-> a, val |-> v, offs |-> 0, len |-> 0]

ReadWord(a, v) ==
  [op |-> "read_word", addr |-> a, val |-> v, offs |-> 0, len |-> 0]

\* dap_write_block(a, &buf[o], n)
WriteBlock(a, o, n) ==
  [op |-> "write_block", addr |-> W32(a), val |-> ZERO32, offs |-> o, len |-> n]

\* dap_read_block(a, bufb, n)
ReadBlock(a, n) ==
  [op |-> "read_block", addr |-> W32(a), val |-> ZERO32, offs |-> 0, len |-> n]

IsWrite(e) == e.op \in {"write_word", "write_block"}

IsCommand(e, cmd) ==
  e.op = "write_word" /\ e.addr = NVMCTRL_CTRLB /\ e.val = cmd

(***************************************************************************)
(* target_options.file_data: the image followed by the loader's padding.   *)
(***************************************************************************)
ImageByte(img, i) ==
  IF img = 1 THEN (i * 7 + 3) % 256
  ELSE IF i < 600 THEN 255 ELSE i % 251

FileByte(i) ==
  IF i < target_options.file_size
  THEN ImageByte(target_options.file_data.img, i)
  ELSE target_options.file_data.pad

Buffers == { [img |-> 1, pad |-> 255], [img |-> 2, pad |-> 0] }

(***************************************************************************)
(* Device memory behind dap_write_block / dap_read_block: a byte reads as  *)
(* the last block write that covers it left it, 0xff where nothing was     *)
(* written, and flipped where the harness corrupted it.                    *)
(***************************************************************************)
ERASED == 255

Covers(w, a) == w.addr <= a /\ a < w.addr + w.len

StoredByte(ws, a) ==
  LET hit == {k \in ws : Covers(flash[k], a)}
  IN  IF hit = {} THEN ERASED
      ELSE LET k == CHOOSE m \in hit : \A n \in hit : n <= m
           IN  FileByte(flash[k].offs + (a - flash[k].addr))

MemByteIn(ws, a) ==
  IF a \in fault THEN 255 - StoredByte(ws, a) ELSE StoredByte(ws, a)

\* the block writes that overlap [a, a + n)
Near(a, n) ==
  {k \in 1..Len(flash) : flash[k].addr < a + n /\ a < flash[k].addr + flash[k].len}

MemByte(a) == MemByteIn(Near(a, 1), a)

\* what dap_read_block(a, bufb, n) leaves in bufb, indexed from 0
BlockBytes(a, n) ==
  LET ws == Near(a, n)
  IN  [i \in 0..(n - 1) |-> MemByteIn(ws, a + i)]

(***************************************************************************)
(* target_select (src lines 108-138).                                      *)
(***************************************************************************)
\* variant: the identification value is compared unmasked
DeviceIdUnmasked(d) == d

\* id = dsu_did & DEVICE_ID_MASK
DeviceId(d) == And32(d, DEVICE_ID_MASK)

\* variant: the revision is taken without the shift
DeviceRevUnshifted(d) == And32(d, DEVICE_REV_MASK)

\* rev = (dsu_did >> DEVICE_REV_SHIFT) & DEVICE_REV_MASK
DeviceRev(d) == And32(Shr32(d, DEVICE_REV_SHIFT), DEVICE_REV_MASK)

\* 'A' + rev, as a character code
RevLetter(d) == 65 + Val(DeviceRev(d))

\* target_check_options(&target_options, flash_size, FLASH_ROW_SIZE,
\* USER_ROW_SIZE) of target.c: the offset is row aligned and the image fits
TargetCheckOptions(o, flash_size, align) ==
  /\ o.offset % align = 0
  /\ o.offset < flash_size
  /\ o.file_size <= flash_size - o.offset

\* values the identification register may return
DidValues ==
  { Word(hi, die * 4096 + rev * 256 + sel) :
      hi \in {24964, 24582, 0, 4660}, die \in {0, 1}, rev \in 0..15,
      sel \in {0, 3} }

Lens ==
  {0, 1, 512, 513}
    \cup {r * FLASH_ROW_SIZE + d : r \in 1..(MaxRows - 1), d \in {0, 1}}
    \cup {MaxRows * FLASH_ROW_SIZE}

\* option sets that pass target_check_options
Sessions ==
  { [offset |-> o, file_size |-> n, file_data |-> b] :
      o \in {0, FLASH_ROW_SIZE}, n \in Lens, b \in Buffers }

\* option sets a caller may hand to target_select
OptionsIn ==
  { [offset |-> o, file_size |-> 513, file_data |-> [img |-> 1, pad |-> 255]] :
      o \in {0, FLASH_PAGE_SIZE, FLASH_ROW_SIZE} }

NoOptions == [offset |-> 0, file_size |-> 0, file_data |-> [img |-> 0, pad |-> 0]]

CallSelect ==
  /\ pc = "idle"
  /\ "select" \notin called
  /\ \E o \in OptionsIn : options' = o
  /\ op' = "select"
  /\ called' = called \cup {"select"}
  /\ trace' = << >>
  /\ pc' = "sel_dhcsr"
  /\ UNCHANGED << fuseVars, err, report, spins, busy, target_device, target_options,
                  dsu_did, device, progVars, memVars, compared >>

\* dap_write_word(DHCSR, 0xa05f0003)
SelectHalt ==
  /\ pc = "sel_dhcsr"
  /\ trace' = Append(trace, WriteWord(DHCSR, DHCSR_HALT))
  /\ pc' = "sel_demcr"
  /\ UNCHANGED << fuseVars, op, called, err, report, spins, busy, selVars, progVars,
                  memVars, compared >>

\* dap_write_word(DEMCR, 0x00000001)
SelectCatchReset ==
  /\ pc = "sel_demcr"
  /\ trace' = Append(trace, WriteWord(DEMCR, DEMCR_VC_CORERESET))
  /\ pc' = "sel_aircr"
  /\ UNCHANGED << fuseVars, op, called, err, report, spins, busy, selVars, progVars,
                  memVars, compared >>

\* dap_write_word(AIRCR, 0x05fa0004)
SelectReset ==
  /\ pc = "sel_aircr"
  /\ trace' = Append(trace, WriteWord(AIRCR, AIRCR_SYSRESETREQ))
  /\ pc' = "sel_did"
  /\ UNCHANGED << fuseVars, op, called, err, report, spins, busy, selVars, progVars,
                  memVars, compared >>

\* dsu_did = dap_read_word(DSU_DID); device = devices
SelectReadId ==
  /\ pc = "sel_did"
  /\ \E d \in DidValues :
       /\ dsu_did' = d
       /\ trace' = Append(trace, ReadWord(DSU_DID, d))
  /\ device' = 1
  /\ pc' = "sel_scan"
  /\ UNCHANGED << fuseVars, op, called, err, report, spins, busy, options, target_device,
                  target_options, progVars, memVars, compared >>

\* one iteration of the for loop, where the entry matches
SelectMatch ==
  /\ pc = "sel_scan"
  /\ devices[device].dsu_did # ZERO32
  /\ devices[device].dsu_did = DeviceId(dsu_did)
  /\ report' = Append(report, [kind |-> "target", name |-> devices[device].name,
                               rev |-> RevLetter(dsu_did)])
  /\ target_device' = devices[device]
  /\ target_options' = options
  /\ IF TargetCheckOptions(options, devices[device].flash_size, FLASH_ROW_SIZE)
     THEN pc' = "idle" /\ err' = err
     ELSE pc' = "exit" /\ err' = "invalid options"
  /\ UNCHANGED << fuseVars, op, called, trace, spins, busy, options, dsu_did, device,
                  progVars, memVars, compared >>

\* one iteration of the for loop, where the entry does not match
SelectNext ==
  /\ pc = "sel_scan"
  /\ devices[device].dsu_did # ZERO32
  /\ devices[device].dsu_did # DeviceId(dsu_did)
  /\ device' = device + 1
  /\ UNCHANGED << fuseVars, pc, op, called, err, report, trace, spins, busy, options,
                  target_device, target_options, dsu_did, progVars, memVars,
                  compared >>

\* variant: the error carries the masked identification value
SelectUnknownMasked ==
  /\ pc = "sel_scan"
  /\ devices[device].dsu_did = ZERO32
  /\ err' = "unknown target device"
  /\ report' = Append(report, [kind |-> "error", did |-> DeviceId(dsu_did)])
  /\ pc' = "exit"
  /\ UNCHANGED << fuseVars, op, called, trace, spins, busy, selVars, progVars,
                  memVars, compared >>

\* the loop ends at the sentinel: error_exit("unknown target device ...")
SelectUnknown ==
  /\ pc = "sel_scan"
  /\ devices[device].dsu_did = ZERO32
  /\ err' = "unknown target device"
  /\ report' = Append(report, [kind |-> "error", did |-> dsu_did])
  /\ pc' = "exit"
  /\ UNCHANGED << fuseVars, op, called, trace, spins, busy, selVars, progVars, memVars,
                  compared >>

(***************************************************************************)
(* target_deselect (src lines 141-147).                                    *)
(***************************************************************************)
\* the file_data of an options copy whose buffers have been released
Released == [img |-> 0, pad |-> 0]

\* target_free_options(&target_options) of target.c
FreeOptions(o) == [o EXCEPT !.file_data = Released]

CallDeselect ==
  /\ pc = "idle"
  /\ op = "select"
  /\ "deselect" \notin called
  /\ op' = "deselect"
  /\ called' = called \cup {"deselect"}
  /\ trace' = << >>
  /\ pc' = "des_demcr"
  /\ UNCHANGED << fuseVars, err, report, spins, busy, selVars, progVars,
                  memVars, compared >>

\* variant: the reset catch is left enabled
DeselectDemcrKeepsCatch ==
  /\ pc = "des_demcr"
  /\ trace' = Append(trace, WriteWord(DEMCR, DEMCR_VC_CORERESET))
  /\ pc' = "des_aircr"
  /\ UNCHANGED << fuseVars, op, called, err, report, spins, busy, selVars,
                  progVars, memVars, compared >>

\* dap_write_word(DEMCR, 0x00000000)
DeselectDemcr ==
  /\ pc = "des_demcr"
  /\ trace' = Append(trace, WriteWord(DEMCR, ZERO32))
  /\ pc' = "des_aircr"
  /\ UNCHANGED << fuseVars, op, called, err, report, spins, busy, selVars,
                  progVars, memVars, compared >>

\* dap_write_word(AIRCR, 0x05fa0004)
DeselectReset ==
  /\ pc = "des_aircr"
  /\ trace' = Append(trace, WriteWord(AIRCR, AIRCR_SYSRESETREQ))
  /\ pc' = "des_free"
  /\ UNCHANGED << fuseVars, op, called, err, report, spins, busy, selVars,
                  progVars, memVars, compared >>

\* target_free_options(&target_options)
DeselectFree ==
  /\ pc = "des_free"
  /\ target_options' = FreeOptions(target_options)
  /\ pc' = "idle"
  /\ UNCHANGED << fuseVars, op, called, err, report, trace, spins, busy,
                  options, target_device, dsu_did, device, progVars, memVars,
                  compared >>

InitSelect ==
  /\ pc = "idle"
  /\ op = "none"
  /\ called = {}
  /\ err = ""
  /\ report = << >>
  /\ trace = << >>
  /\ spins = 0
  /\ busy = FALSE
  /\ options = NoOptions
  /\ target_device = NoDevice
  /\ target_options = NoOptions
  /\ dsu_did = ZERO32
  /\ device = 1
  /\ addr = 0 /\ offs = 0 /\ size = 0
  /\ number_of_rows = 0 /\ row = 0 /\ page = 0
  /\ flash = << >>
  /\ fault = {}
  /\ compared = << >>
  /\ buf = << >>
  /\ urow = << >>
  /\ urow0 = << >>
  /\ fuse_i = 0

NextSelect ==
  \/ CallSelect
  \/ SelectHalt
  \/ SelectCatchReset
  \/ SelectReset
  \/ SelectReadId
  \/ SelectMatch
  \/ SelectNext
  \/ SelectUnknown
  \/ CallDeselect
  \/ DeselectDemcr
  \/ DeselectReset
  \/ DeselectFree

SpecSelect == InitSelect /\ [][NextSelect]_vars

(***************************************************************************)
(* target_program (src lines 164-208).                                     *)
(***************************************************************************)
\* values the DSU status register may return: every mix of DONE and PROT
DsuStatusValues ==
  { ZERO32, DSU_STATUSA_DONE, DSU_STATUSB_PROT,
    Or32(DSU_STATUSA_DONE, DSU_STATUSB_PROT) }

\* values NVMCTRL_INTFLAG_STATUS may return
NvmStatusValues == { ZERO32, NVMCTRL_STATUS_READY }

\* variant: the status is tested against the DONE flag
IsLockedDoneFlag(st) == And32(st, DSU_STATUSA_DONE) # ZERO32

\* dap_read_word(DSU_CTRL_STATUS) & DSU_STATUSB_PROT
IsLocked(st) == And32(st, DSU_STATUSB_PROT) # ZERO32

\* the poll loop ends: 0 != (status & NVMCTRL_STATUS_READY)
IsReady(st) == And32(st, NVMCTRL_STATUS_READY) # ZERO32

\* the word written to NVMCTRL_CTRLA
NvmConfig ==
  Or32(NVMCTRL_CTRLA_AUTOWS,
    Or32(NVMCTRL_CTRLA_WMODE_MAN,
      Or32(NVMCTRL_CTRLA_PRM_MANUAL,
        Or32(NVMCTRL_CTRLA_CACHEDIS0, NVMCTRL_CTRLA_CACHEDIS1))))

\* variant: the row count is rounded down
NumberOfRowsFloor(n) == n \div FLASH_ROW_SIZE

\* number_of_rows = (size + FLASH_ROW_SIZE - 1) / FLASH_ROW_SIZE
NumberOfRows(n) == (n + FLASH_ROW_SIZE - 1) \div FLASH_ROW_SIZE

\* lines 166-170
CallProgram ==
  /\ pc = "idle"
  /\ "program" \notin called
  /\ "corrupt" \notin called
  /\ op' = "program"
  /\ called' = called \cup {"program"}
  /\ trace' = << >>
  /\ addr' = FLASH_ADDR + target_options.offset
  /\ offs' = 0
  /\ size' = target_options.file_size
  /\ pc' = "prog_check"
  /\ UNCHANGED << fuseVars, err, report, spins, busy, selVars, number_of_rows, row, page,
                  memVars, compared >>

\* lines 172-173
ProgramCheck ==
  /\ pc = "prog_check"
  /\ \E st \in DsuStatusValues :
       /\ trace' = Append(trace, ReadWord(DSU_CTRL_STATUS, st))
       /\ IF IsLocked(st)
          THEN pc' = "exit" /\ err' = "device is locked"
          ELSE pc' = "prog_config" /\ err' = err
  /\ UNCHANGED << fuseVars, op, called, report, spins, busy, selVars, progVars, memVars,
                  compared >>

\* lines 175-180: configure the controller, count the rows, enter the loop
ProgramConfig ==
  /\ pc = "prog_config"
  /\ trace' = Append(trace, WriteWord(NVMCTRL_CTRLA, NvmConfig))
  /\ number_of_rows' = NumberOfRows(size)
  /\ row' = 0
  /\ pc' = IF 0 < NumberOfRows(size) THEN "row_addr" ELSE "idle"
  /\ UNCHANGED << fuseVars, op, called, err, report, spins, busy, selVars, addr, offs,
                  size, page, memVars, compared >>

\* dap_write_word(a, v) to a register that starts no command
Store(a, v, next) ==
  /\ trace' = Append(trace, WriteWord(a, v))
  /\ pc' = next
  /\ UNCHANGED << fuseVars, op, called, err, report, spins, busy, selVars, progVars,
                  memVars, compared >>

\* dap_write_word(NVMCTRL_CTRLB, cmd): the device starts executing cmd
Command(cmd, next) ==
  /\ trace' = Append(trace, WriteWord(NVMCTRL_CTRLB, cmd))
  /\ busy' = TRUE
  /\ spins' = 0
  /\ pc' = next
  /\ UNCHANGED << fuseVars, op, called, err, report, selVars, progVars, memVars,
                  compared >>

\* one dap_read_word(NVMCTRL_INTFLAG_STATUS) of a poll loop that sees the
\* device not ready and reads again
PollAgain ==
  /\ pc \in {"row_ur_wait", "row_eb_wait", "page_pbc_wait", "page_wp_wait"}
  /\ \E st \in NvmStatusValues : ~IsReady(st)
  /\ spins < MaxSpin
  /\ spins' = spins + 1
  /\ UNCHANGED << fuseVars, pc, op, called, err, report, trace, busy, selVars, progVars,
                  memVars, compared >>

\* variant: the poll loop is left out
PollSkip(at) ==
  /\ pc = at
  /\ UNCHANGED << trace, busy, spins >>

\* the read of a poll loop that sees the ready flag; the loop ends
PollReady(at) ==
  /\ pc = at
  /\ \E st \in NvmStatusValues :
       /\ IsReady(st)
       /\ trace' = Append(trace, ReadWord(NVMCTRL_INTFLAG_STATUS, st))
  /\ busy' = FALSE
  /\ spins' = 0

\* line 182
RowAddr == pc = "row_addr" /\ Store(NVMCTRL_ADDR, W32(addr), "row_unlock")

\* line 184
RowUnlock == pc = "row_unlock" /\ Command(NVMCTRL_CMD_UR, "row_ur_wait")

\* line 185
RowUnlockWait ==
  /\ PollReady("row_ur_wait")
  /\ pc' = "row_erase"
  /\ UNCHANGED << fuseVars, op, called, err, report, selVars, progVars, memVars,
                  compared >>

\* line 187
RowErase == pc = "row_erase" /\ Command(NVMCTRL_CMD_EB, "row_eb_wait")

\* lines 188-190: the erase completes, the page loop starts
RowEraseWait ==
  /\ PollReady("row_eb_wait")
  /\ page' = 0
  /\ pc' = "page_addr"
  /\ UNCHANGED << fuseVars, op, called, err, report, selVars, addr, offs, size,
                  number_of_rows, row, memVars, compared >>

\* line 192
PageAddr == pc = "page_addr" /\ Store(NVMCTRL_ADDR, W32(addr), "page_clear")

\* line 194
PageClear == pc = "page_clear" /\ Command(NVMCTRL_CMD_PBC, "page_pbc_wait")

\* line 195
PageClearWait ==
  /\ PollReady("page_pbc_wait")
  /\ pc' = "page_load"
  /\ UNCHANGED << fuseVars, op, called, err, report, selVars, progVars, memVars,
                  compared >>

\* variant: dap_write_block(addr, buf, FLASH_PAGE_SIZE), the offset forgotten
PageLoadFromStart ==
  /\ pc = "page_load"
  /\ trace' = Append(trace, WriteBlock(addr, 0, FLASH_PAGE_SIZE))
  /\ flash' = Append(flash, [addr |-> addr, offs |-> 0, len |-> FLASH_PAGE_SIZE])
  /\ pc' = "page_write"
  /\ UNCHANGED << fuseVars, op, called, err, report, spins, busy, selVars, progVars,
                  fault, compared >>

\* line 197: dap_write_block(addr, &buf[offs], FLASH_PAGE_SIZE)
PageLoad ==
  /\ pc = "page_load"
  /\ trace' = Append(trace, WriteBlock(addr, offs, FLASH_PAGE_SIZE))
  /\ flash' = Append(flash, [addr |-> addr, offs |-> offs, len |-> FLASH_PAGE_SIZE])
  /\ pc' = "page_write"
  /\ UNCHANGED << fuseVars, op, called, err, report, spins, busy, selVars, progVars,
                  fault, compared >>

\* line 199
PageWrite == pc = "page_write" /\ Command(NVMCTRL_CMD_WP, "page_wp_wait")

\* variant: the page loop stops one page early
MorePagesShort(p) == p + 2 < PAGES_IN_ERASE_BLOCK

\* page++ leaves the page loop running
MorePages(p) == p + 1 < PAGES_IN_ERASE_BLOCK

\* variant: the row loop runs once
AfterPageOneRow(p, r, rows) ==
  IF p + 1 < PAGES_IN_ERASE_BLOCK THEN "page_addr" ELSE "idle"

\* where the loops go after a page: the next page, the next row, or the end
AfterPage(p, r, rows) ==
  IF MorePages(p) THEN "page_addr"
  ELSE IF r + 1 < rows THEN "row_addr"
  ELSE "idle"

\* lines 200-207: the write completes; advance, and step the two loops
PageWriteWait ==
  /\ PollReady("page_wp_wait")
  /\ addr' = addr + FLASH_PAGE_SIZE
  /\ offs' = offs + FLASH_PAGE_SIZE
  /\ page' = IF MorePages(page) THEN page + 1 ELSE 0
  /\ row' = IF MorePages(page) THEN row ELSE row + 1
  /\ pc' = AfterPage(page, row, number_of_rows)
  /\ UNCHANGED << fuseVars, op, called, err, report, selVars, size, number_of_rows,
                  memVars, compared >>

(***************************************************************************)
(* target_verify (src lines 211-247).                                      *)
(***************************************************************************)
\* variant: every page is compared whole
BlockSizeWholePage(n) == FLASH_PAGE_SIZE

\* block_size = (size > FLASH_PAGE_SIZE) ? FLASH_PAGE_SIZE : size
BlockSize(n) == IF n > FLASH_PAGE_SIZE THEN FLASH_PAGE_SIZE ELSE n

\* the for loop of lines 228-237: the first index i < n at which
\* bufa[o + i] != bufb[i], or n when the loop runs to its end
FirstDiff(bufb, o, n) ==
  IF \E i \in 0..(n - 1) : FileByte(o + i) # bufb[i]
  THEN CHOOSE i \in 0..(n - 1) :
         /\ FileByte(o + i) # bufb[i]
         /\ \A j \in 0..(i - 1) : FileByte(o + j) = bufb[j]
  ELSE n

\* variant: the page address is printed, without the index
MismatchReportPageAddr(a, o, i, bufb) ==
  [kind |-> "mismatch", addr |-> a, expected |-> FileByte(o + i),
   read |-> bufb[i]]

\* lines 232-233: the line verbose() prints for a mismatch at index i
MismatchReport(a, o, i, bufb) ==
  [kind |-> "mismatch", addr |-> a + i, expected |-> FileByte(o + i),
   read |-> bufb[i]]

\* lines 213-222
CallVerify ==
  /\ pc = "idle"
  /\ "verify" \notin called
  /\ op' = "verify"
  /\ called' = called \cup {"verify"}
  /\ trace' = << >>
  /\ compared' = << >>
  /\ addr' = FLASH_ADDR + target_options.offset
  /\ offs' = 0
  /\ size' = target_options.file_size
  /\ pc' = IF target_options.file_size # 0 THEN "ver_page" ELSE "idle"
  /\ UNCHANGED << fuseVars, err, report, spins, busy, selVars, number_of_rows, row, page,
                  memVars >>

\* lines 224-243: one iteration of the while loop
VerifyPage ==
  /\ pc = "ver_page"
  /\ trace' = Append(trace, ReadBlock(addr, FLASH_PAGE_SIZE))
  /\ LET bufb == BlockBytes(addr, FLASH_PAGE_SIZE)
         block_size == BlockSize(size)
         i == FirstDiff(bufb, offs, block_size)
     IN  IF i < block_size
         THEN /\ report' = Append(report, MismatchReport(addr, offs, i, bufb))
              /\ compared' = Append(compared, [offs |-> offs, len |-> i + 1])
              /\ err' = "verification failed"
              /\ pc' = "exit"
              /\ UNCHANGED << addr, offs, size >>
         ELSE /\ compared' = Append(compared, [offs |-> offs, len |-> block_size])
              /\ addr' = addr + FLASH_PAGE_SIZE
              /\ offs' = offs + FLASH_PAGE_SIZE
              /\ size' = size - block_size
              /\ pc' = IF size - block_size # 0 THEN "ver_page" ELSE "idle"
              /\ UNCHANGED << report, err >>
  /\ UNCHANGED << fuseVars, op, called, spins, busy, selVars, number_of_rows, row, page,
                  memVars >>

(***************************************************************************)
(* The test harness: between operations it may flip bytes of the device    *)
(* memory before the image is verified.                                    *)
(***************************************************************************)
FaultAddrs ==
  LET base == FLASH_ADDR + target_options.offset
      n == target_options.file_size
  IN  {base + d : d \in {0, 1, FLASH_PAGE_SIZE, n - 1, n, n + 1} \ {-1}}

Corrupt ==
  /\ pc = "idle"
  /\ "verify" \notin called
  /\ "corrupt" \notin called
  /\ \E s \in (SUBSET FaultAddrs) \ {{}} : fault' = s
  /\ called' = called \cup {"corrupt"}
  /\ UNCHANGED << fuseVars, pc, op, err, report, trace, spins, busy, selVars, progVars,
                  flash, compared >>

(***************************************************************************)
(* Programming and verifying in a session that target_select has set up.   *)
(***************************************************************************)
Init ==
  /\ pc = "idle"
  /\ op = "select"
  /\ called = {"select"}
  /\ err = ""
  /\ report = << >>
  /\ trace = << >>
  /\ spins = 0
  /\ busy = FALSE
  /\ target_options \in Sessions
  /\ options = target_options
  /\ target_device = devices[1]
  /\ dsu_did = devices[1].dsu_did
  /\ device = 1
  /\ addr = 0 /\ offs = 0 /\ size = 0
  /\ number_of_rows = 0 /\ row = 0 /\ page = 0
  /\ flash = << >>
  /\ fault = {}
  /\ compared = << >>
  /\ buf = << >>
  /\ urow = << >>
  /\ urow0 = << >>
  /\ fuse_i = 0

Next ==
  \/ CallProgram
  \/ ProgramCheck
  \/ ProgramConfig
  \/ RowAddr
  \/ RowUnlock
  \/ RowUnlockWait
  \/ RowErase
  \/ RowEraseWait
  \/ PageAddr
  \/ PageClear
  \/ PageClearWait
  \/ PageLoad
  \/ PageWrite
  \/ PageWriteWait
  \/ PollAgain
  \/ Corrupt
  \/ CallVerify
  \/ VerifyPage

Spec == Init /\ [][Next]_vars

(***************************************************************************)
(* Properties.                                                             *)
(***************************************************************************)
Base == FLASH_ADDR + target_options.offset

ImageLen == target_options.file_size

Last(t) == t[Len(t)]

\* the least q with q * b >= a
Ceil(a, b) == CHOOSE q \in 0..a : q * b >= a /\ (q = 0 \/ (q - 1) * b < a)

Positions(cmd) == {k \in 1..Len(trace) : IsCommand(trace[k], cmd)}

BlockWrites == {k \in 1..Len(trace) : trace[k].op = "write_block"}

BlockReads == {k \in 1..Len(trace) : trace[k].op = "read_block"}

\* how many members of s come before k
Rank(s, k) == Cardinality({j \in s : j < k})

ProgramDone == op = "program" /\ pc = "idle"

VerifyDone == op = "verify" /\ pc = "idle"

VerifyFailed == op = "verify" /\ pc = "exit"

\* bit 16 of a word
Bit16(w) == w[1] % 2 = 1

\* C1: when the first read of the DSU status register has the protection
\* bit (bit 16) set, target_program has failed with the device-locked error
\* and has issued no register write and no block write.
C1_LockedFailsBeforeAnyWrite ==
  (op = "program" /\ trace # << >> /\ Bit16(trace[1].val)) =>
    /\ trace[1] = ReadWord(DSU_CTRL_STATUS, trace[1].val)
    /\ pc = "exit"
    /\ err = "device is locked"
    /\ \A k \in 1..Len(trace) : ~IsWrite(trace[k])
    /\ flash = << >>

C1_Witness ==
  /\ op = "program"
  /\ pc = "exit"
  /\ err = "device is locked"
  /\ Len(trace) = 1
  /\ Bit16(trace[1].val)

EventKind(e) ==
  IF e.op = "write_block" THEN "load"
  ELSE IF e.op = "read_word" /\ e.addr = NVMCTRL_INTFLAG_STATUS /\ Bit16(e.val)
    THEN "ready"
  ELSE IF e.op = "write_word" /\ e.addr = NVMCTRL_ADDR THEN "addr"
  ELSE IF IsCommand(e, NVMCTRL_CMD_UR) THEN "unlock"
  ELSE IF IsCommand(e, NVMCTRL_CMD_EB) THEN "erase"
  ELSE IF IsCommand(e, NVMCTRL_CMD_PBC) THEN "clear"
  ELSE IF IsCommand(e, NVMCTRL_CMD_WP) THEN "write"
  ELSE "other"

RowPattern == << "addr", "unlock", "ready", "erase", "ready" >>

PagePattern == << "addr", "clear", "ready", "load", "write", "ready" >>

RowEvents == Len(RowPattern) + PAGES_IN_ERASE_BLOCK * Len(PagePattern)

\* the kind of the k-th access of target_program, k >= 3 (the first two are
\* the status read and the configuration write)
ExpectedKind(k) ==
  LET q == (k - 3) % RowEvents
  IN  IF q < Len(RowPattern) THEN RowPattern[q + 1]
      ELSE PagePattern[((q - Len(RowPattern)) % Len(PagePattern)) + 1]

IsNvmCommand(e) == e.op = "write_word" /\ e.addr = NVMCTRL_CTRLB

\* C2: in target_program the accesses of every row come in the order address,
\* unlock-region, erase-block, then per page address, page-buffer-clear,
\* block write, write-page; each command is followed by a status read with the
\* ready flag before the next write, and no write is issued while the device
\* is still executing a command.
C2_CommandOrderAndPolling ==
  op = "program" =>
    /\ \A k \in 3..Len(trace) : EventKind(trace[k]) = ExpectedKind(k)
    /\ \A k \in 1..(Len(trace) - 1) :
         IsNvmCommand(trace[k]) => EventKind(trace[k + 1]) = "ready"
    /\ busy => (trace # << >> /\ IsNvmCommand(Last(trace)))
    /\ spins > 0 => busy

C2_Witness ==
  /\ ProgramDone
  /\ number_of_rows = 2
  /\ Len(trace) = 2 + 2 * RowEvents

\* C3 as stated: target_program issues exactly ceil(L / page_size) write-page
\* commands.
C3_Original ==
  ProgramDone =>
    Cardinality(Positions(NVMCTRL_CMD_WP)) = Ceil(ImageLen, FLASH_PAGE_SIZE)

\* C3 amended: target_program issues exactly
\* ceil(L / row_size) * (row_size / page_size) write-page commands: it writes
\* every page of every row the image reaches, also the pages of the last row
\* that lie beyond the end of the image.
C3_WholeRowsWritten ==
  /\ ProgramDone =>
       Cardinality(Positions(NVMCTRL_CMD_WP))
         = Ceil(ImageLen, FLASH_ROW_SIZE) * (FLASH_ROW_SIZE \div FLASH_PAGE_SIZE)
  /\ op = "program" =>
       Cardinality(Positions(NVMCTRL_CMD_WP))
         <= Ceil(ImageLen, FLASH_ROW_SIZE) * (FLASH_ROW_SIZE \div FLASH_PAGE_SIZE)

C3_Witness ==
  /\ ProgramDone
  /\ ImageLen = 513
  /\ Cardinality(Positions(NVMCTRL_CMD_WP)) = 16

\* C4: target_program issues exactly ceil(L / row_size) unlock-region +
\* erase-block cycles (none for L = 0), and the r-th cycle (r from 0) comes
\* right after the address register is set to target_offset + r * row_size.
C4_RowCycles ==
  /\ op = "program" =>
       /\ \A k \in Positions(NVMCTRL_CMD_UR) :
            /\ k > 1
            /\ trace[k - 1] =
                 WriteWord(NVMCTRL_ADDR,
                   W32(Base + Rank(Positions(NVMCTRL_CMD_UR), k) * FLASH_ROW_SIZE))
            /\ k + 2 <= Len(trace) => IsCommand(trace[k + 2], NVMCTRL_CMD_EB)
       /\ \A k \in Positions(NVMCTRL_CMD_EB) :
            k > 2 /\ IsCommand(trace[k - 2], NVMCTRL_CMD_UR)
  /\ ProgramDone =>
       /\ Cardinality(Positions(NVMCTRL_CMD_UR)) = Ceil(ImageLen, FLASH_ROW_SIZE)
       /\ Cardinality(Positions(NVMCTRL_CMD_EB)) = Ceil(ImageLen, FLASH_ROW_SIZE)

C4_Witness ==
  /\ ProgramDone
  /\ ImageLen = FLASH_ROW_SIZE + 1
  /\ Base = FLASH_ROW_SIZE
  /\ Cardinality(Positions(NVMCTRL_CMD_EB)) = 2

\* C5: the k-th block write of target_program (k from 0, across all rows)
\* goes to target_offset + k * page_size, carries page_size bytes from image
\* offset k * page_size, and follows an address-register write of that same
\* address; page addresses strictly increase and the ranges do not overlap.
C5_PageAddresses ==
  op = "program" =>
    \A i \in BlockWrites :
      LET k == Rank(BlockWrites, i)
      IN  /\ trace[i].addr = W32(Base + k * FLASH_PAGE_SIZE)
          /\ trace[i].offs = k * FLASH_PAGE_SIZE
          /\ trace[i].len = FLASH_PAGE_SIZE
          /\ i > 3
          /\ trace[i - 3] = WriteWord(NVMCTRL_ADDR, trace[i].addr)
          /\ \A j \in BlockWrites :
               j < i => Val(trace[j].addr) + trace[j].len <= Val(trace[i].addr)

C5_Witness ==
  /\ ProgramDone
  /\ Base = FLASH_ROW_SIZE
  /\ Cardinality(BlockWrites) = 2 * PAGES_IN_ERASE_BLOCK

\* target_select has returned or failed
SelectOver == op = "select" /\ "select" \in called /\ pc \in {"idle", "exit"}

\* d with bits 8-11 cleared
ClearRevision(d) == << d[1], d[2] - ((d[2] \div 256) % 16) * 256 >>

\* the table entries, without the sentinel, whose id is w
Entries(w) == {k \in 1..(Len(devices) - 1) : devices[k].dsu_did = w}

\* C6: when the identification value with bits 8-11 cleared is the id of a
\* table entry, target_select stores exactly that entry, whatever bits 8-11
\* are; when it is no entry's id (also when it is 0, the sentinel's id),
\* target_select fails with the unknown-device error.
C6_LookupByMaskedId ==
  SelectOver =>
    LET hit == Entries(ClearRevision(dsu_did))
    IN  IF hit # {}
        THEN /\ \A k \in hit : target_device = devices[k]
             /\ err # "unknown target device"
        ELSE /\ err = "unknown target device"
             /\ pc = "exit"
             /\ target_device = NoDevice

C6_Witness ==
  /\ SelectOver
  /\ pc = "idle"
  /\ dsu_did = Word(24582, 1280)
  /\ target_device = devices[2]

\* 0x61841003, the example's identification value: bits 8-11 are 0, bit 12
\* and bits 0-1 are set
DidExample == Word(24964, 4099)

\* 0x61840300: the entry's id with revision 3
DidRevisionD == Word(24964, 768)

\* C7 as stated: with the identification register returning 0x61841003,
\* target_select selects the SAM E54P20A entry and reports the revision
\* letter 'A' + ((0x61841003 >> 8) & 0xf) = 'A'.
C7_Original ==
  (SelectOver /\ dsu_did = DidExample) =>
    /\ target_device = devices[1]
    /\ err # "unknown target device"
    /\ report # << >>
    /\ report[1] = [kind |-> "target", name |-> "SAM E54P20A", rev |-> 65]

\* C7 amended: 0x61841003 & 0xfffff0ff = 0x61841003 (the mask clears bits
\* 8-11 only), which is no entry's id, so target_select fails with the
\* unknown-device error and selects nothing; for 0x61840300, which differs
\* from the entry's id in bits 8-11 only, it selects the SAM E54P20A entry
\* and reports the revision letter 'A' + ((0x61840300 >> 8) & 0xf) = 'D'.
C7_ExampleNotInTable ==
  /\ (SelectOver /\ dsu_did = DidExample) =>
       /\ err = "unknown target device"
       /\ pc = "exit"
       /\ target_device = NoDevice
       /\ Last(report) = [kind |-> "error", did |-> DidExample]
  /\ (SelectOver /\ dsu_did = DidRevisionD) =>
       /\ target_device = devices[1]
       /\ devices[1] = [dsu_did |-> Word(24964, 0), name |-> "SAM E54P20A",
                        flash_size |-> 1048576]
       /\ err # "unknown target device"
       /\ report[1] = [kind |-> "target", name |-> "SAM E54P20A", rev |-> 68]

C7_Witness ==
  /\ SelectOver
  /\ pc = "exit"
  /\ dsu_did = DidExample
  /\ err = "unknown target device"
  /\ device = Len(devices)

\* the image indexes at which the device memory differs from the image
Differs(j) == FileByte(j) # MemByte(Base + j)

\* C8: when the device memory returns what was block-written, target_verify
\* run after target_program with the same image and offset does not fail,
\* whatever the image length, and it compares the whole image.
C8_ProgramThenVerify ==
  (op = "verify" /\ "program" \in called /\ "corrupt" \notin called) =>
    /\ pc # "exit"
    /\ err = ""
    /\ pc = "idle" => \A k \in 1..Len(compared) :
                        compared[k].len = IF k * FLASH_PAGE_SIZE <= ImageLen
                                          THEN FLASH_PAGE_SIZE
                                          ELSE ImageLen % FLASH_PAGE_SIZE
    /\ pc = "idle" => Len(compared) = Ceil(ImageLen, FLASH_PAGE_SIZE)

C8_Witness ==
  /\ VerifyDone
  /\ "program" \in called
  /\ "corrupt" \notin called
  /\ ImageLen = FLASH_ROW_SIZE + 1
  /\ Len(compared) = PAGES_IN_ERASE_BLOCK + 1

\* C9: when the device memory differs from the image at some index below L,
\* target_verify fails with the verification-failed error; it reports the
\* address target_offset + j of the lowest differing index j with the
\* expected and the read byte, and its last block read is the one of the
\* page that holds j.
C9_FirstMismatchReported ==
  /\ VerifyDone => \A j \in 0..(ImageLen - 1) : ~Differs(j)
  /\ VerifyFailed =>
       /\ err = "verification failed"
       /\ report # << >>
       /\ Last(report).kind = "mismatch"
       /\ LET j == Last(report).addr - Base
          IN  /\ j \in 0..(ImageLen - 1)
              /\ Differs(j)
              /\ \A i \in 0..(j - 1) : ~Differs(i)
              /\ Last(report).expected = FileByte(j)
              /\ Last(report).read = MemByte(Base + j)
              /\ Cardinality(BlockReads) = j \div FLASH_PAGE_SIZE + 1
              /\ Last(trace) =
                   ReadBlock(Base + (j \div FLASH_PAGE_SIZE) * FLASH_PAGE_SIZE,
                             FLASH_PAGE_SIZE)

C9_Witness ==
  /\ VerifyFailed
  /\ "program" \in called
  /\ Cardinality({a \in fault : a < Base + ImageLen}) >= 2
  /\ Last(report).addr = Base + FLASH_PAGE_SIZE
  /\ Cardinality(BlockReads) = 2

\* C10: target_verify compares no byte at an index >= L, so the bytes of the
\* device at target_offset + L and beyond never make it fail; it compares no
\* index twice, and a verification that runs to its end has compared every
\* index below L exactly once, the last page only in its first L % page_size
\* bytes when L is no multiple of the page size.
C10_PartialLastPage ==
  op = "verify" =>
    /\ \A k \in 1..Len(compared) :
         /\ compared[k].offs = (k - 1) * FLASH_PAGE_SIZE
         /\ compared[k].len >= 1
         /\ compared[k].len <= FLASH_PAGE_SIZE
         /\ compared[k].offs + compared[k].len <= ImageLen
    /\ pc = "idle" =>
         \A j \in 0..(ImageLen - 1) :
           Cardinality({k \in 1..Len(compared) :
             compared[k].offs <= j /\ j < compared[k].offs + compared[k].len}) = 1
    /\ pc = "exit" =>
         /\ Last(report).addr < Base + ImageLen
         /\ FileByte(Last(report).addr - Base) # MemByte(Last(report).addr)

C10_Witness ==
  /\ VerifyDone
  /\ "program" \in called
  /\ ImageLen = 513
  /\ fault = {Base + ImageLen, Base + ImageLen + 1}
  /\ Last(compared) = [offs |-> FLASH_PAGE_SIZE, len |-> 1]

\* C13: when no table entry matches, target_select fails with the
\* unknown-device error carrying the identification value as read, unmasked,
\* and target_device and target_options are as they were before the call.
C13_UnknownLeavesSession ==
  (SelectOver /\ Entries(ClearRevision(dsu_did)) = {}) =>
    /\ pc = "exit"
    /\ err = "unknown target device"
    /\ Len(trace) = 4
    /\ trace[4].op = "read_word"
    /\ Last(report) = [kind |-> "error", did |-> trace[4].val]
    /\ target_device = NoDevice
    /\ target_options = NoOptions
    /\ target_options # options

C13_Witness ==
  /\ SelectOver
  /\ err = "unknown target device"
  /\ dsu_did = Word(24964, 1283)
  /\ Last(report).did = Word(24964, 1283)
  /\ target_options = NoOptions

\* C20: target_select writes debug-halt to DHCSR, the monitor enable to
\* DEMCR and the reset request to AIRCR, in this order and with no read in
\* between, and reads the identification register only after the three;
\* target_deselect writes 0 to DEMCR and then the same reset request to
\* AIRCR, reads nothing, and releases the options copy only after both.
C20_SelectDeselectSequence ==
  /\ op = "select" =>
       /\ Len(trace) <= 4
       /\ \A k \in 1..Len(trace) :
            trace[k] = << WriteWord(Word(57344, 60912), Word(41055, 3)),
                          WriteWord(Word(57344, 60924), Word(0, 1)),
                          WriteWord(Word(57344, 60684), Word(1530, 4)),
                          ReadWord(Word(16640, 8472), dsu_did) >>[k]
       /\ SelectOver => Len(trace) = 4
  /\ op = "deselect" =>
       /\ Len(trace) <= 2
       /\ \A k \in 1..Len(trace) :
            trace[k] = << WriteWord(Word(57344, 60924), ZERO32),
                          WriteWord(Word(57344, 60684), Word(1530, 4)) >>[k]
       /\ target_options # options => Len(trace) = 2
       /\ pc = "idle" =>
            /\ Len(trace) = 2
            /\ target_options = [options EXCEPT !.file_data = Released]

C20_Witness ==
  /\ op = "deselect"
  /\ pc = "idle"
  /\ Len(trace) = 2
  /\ target_options.file_data = Released
  /\ target_options # options

(***************************************************************************)
(* target_erase, target_lock, target_read (src lines 150-161, 250-269).    *)
(***************************************************************************)
DSU_CTRL_CE == Shl32(W32(1), 4)

\* 0xa516
NVMCTRL_CMD_SSB == W32(42262)

\* sleep_ms(100)
ERASE_SETTLE_MS == 100

\* block reads after which a read that has not ended is followed no further
MaxBlockReads == 18

Sleep(ms) ==
  [op |-> "sleep", addr |-> ZERO32, val |-> W32(ms), offs |-> 0, len |-> 0]

\* a - b modulo 2^32
Sub32(a, b) ==
  LET lo == a[2] - b[2]
      hi == a[1] - b[1] - (IF lo < 0 THEN 1 ELSE 0)
  IN  << (hi + 2 * Half) % Half, (lo + Half) % Half >>

\* variant: the poll loop tests the protection flag
IsDoneProtFlag(st) == And32(st, DSU_STATUSB_PROT) # ZERO32

\* the poll loop of target_erase ends: 0 != (status & DSU_STATUSA_DONE)
IsDone(st) == And32(st, DSU_STATUSA_DONE) # ZERO32

\* what the device answers to a read of DSU_CTRL_STATUS: DONE (bit 8) is set
\* exactly when no chip erase is executing
DeviceStatus ==
  {st \in DsuStatusValues : ((st[2] \div 256) % 2 = 1) <=> ~busy}

CallErase ==
  /\ pc = "idle"
  /\ "erase" \notin called
  /\ op' = "erase"
  /\ called' = called \cup {"erase"}
  /\ trace' = << >>
  /\ pc' = "erase_ce"
  /\ UNCHANGED << fuseVars, err, report, spins, busy, selVars, progVars,
                  memVars, compared >>

\* line 152: the device starts the chip erase
EraseStart ==
  /\ pc = "erase_ce"
  /\ trace' = Append(trace, WriteWord(DSU_CTRL_STATUS, DSU_CTRL_CE))
  /\ busy' = TRUE
  /\ spins' = 0
  /\ pc' = "erase_sleep"
  /\ UNCHANGED << fuseVars, op, called, err, report, selVars, progVars,
                  memVars, compared >>

\* line 153
EraseSleep ==
  /\ pc = "erase_sleep"
  /\ trace' = Append(trace, Sleep(ERASE_SETTLE_MS))
  /\ pc' = "erase_poll"
  /\ UNCHANGED << fuseVars, op, called, err, report, spins, busy, selVars,
                  progVars, memVars, compared >>

\* the device: the chip erase completes
DeviceEraseDone ==
  /\ pc \in {"erase_sleep", "erase_poll"}
  /\ busy
  /\ busy' = FALSE
  /\ UNCHANGED << fuseVars, pc, op, called, err, report, trace, spins,
                  selVars, progVars, memVars, compared >>

\* line 154: a read that does not show DONE; the loop reads again (spins
\* stops counting at MaxSpin, the loop does not stop)
ErasePollAgain ==
  /\ pc = "erase_poll"
  /\ \E st \in DeviceStatus : ~IsDone(st)
  /\ spins' = IF spins < MaxSpin THEN spins + 1 ELSE spins
  /\ UNCHANGED << fuseVars, pc, op, called, err, report, trace, busy,
                  selVars, progVars, memVars, compared >>

\* line 154: a read that shows DONE; target_erase returns
ErasePollDone ==
  /\ pc = "erase_poll"
  /\ \E st \in DeviceStatus :
       /\ IsDone(st)
       /\ trace' = Append(trace, ReadWord(DSU_CTRL_STATUS, st))
  /\ spins' = 0
  /\ pc' = "idle"
  /\ UNCHANGED << fuseVars, op, called, err, report, busy, selVars, progVars,
                  memVars, compared >>

CallLock ==
  /\ pc = "idle"
  /\ "lock" \notin called
  /\ op' = "lock"
  /\ called' = called \cup {"lock"}
  /\ trace' = << >>
  /\ pc' = "lock_ssb"
  /\ UNCHANGED << fuseVars, err, report, spins, busy, selVars, progVars,
                  memVars, compared >>

\* line 160
LockWrite ==
  /\ pc = "lock_ssb"
  /\ trace' = Append(trace, WriteWord(NVMCTRL_CTRLA, NVMCTRL_CMD_SSB))
  /\ pc' = "idle"
  /\ UNCHANGED << fuseVars, op, called, err, report, spins, busy, selVars,
                  progVars, memVars, compared >>

\* lines 252-257; size is kept as a 32-bit word, since line 263 may wrap it
CallRead ==
  /\ pc = "idle"
  /\ "read" \notin called
  /\ op' = "read"
  /\ called' = called \cup {"read"}
  /\ trace' = << >>
  /\ addr' = FLASH_ADDR + target_options.offset
  /\ offs' = 0
  /\ size' = W32(target_options.size)
  /\ pc' = IF W32(target_options.size) # ZERO32 THEN "read_page" ELSE "read_save"
  /\ UNCHANGED << fuseVars, err, report, spins, busy, selVars, number_of_rows,
                  row, page, memVars, compared >>

\* lines 259-266: one iteration of the while loop
ReadPage ==
  /\ pc = "read_page"
  /\ Len(trace) < MaxBlockReads
  /\ trace' = Append(trace, ReadBlock(addr, FLASH_PAGE_SIZE))
  /\ addr' = addr + FLASH_PAGE_SIZE
  /\ offs' = offs + FLASH_PAGE_SIZE
  /\ size' = Sub32(size, W32(FLASH_PAGE_SIZE))
  /\ pc' = IF Sub32(size, W32(FLASH_PAGE_SIZE)) # ZERO32
           THEN "read_page" ELSE "read_save"
  /\ UNCHANGED << fuseVars, op, called, err, report, spins, busy, selVars,
                  number_of_rows, row, page, memVars, compared >>

\* line 268: save_file(target_options.name, buf, target_options.size)
ReadSave ==
  /\ pc = "read_save"
  /\ report' = Append(report, [kind |-> "save_file", size |-> target_options.size])
  /\ pc' = "idle"
  /\ UNCHANGED << fuseVars, op, called, err, trace, spins, busy, selVars,
                  progVars, memVars, compared >>

\* read lengths a caller may ask for
ReadLens == {0, 1, FLASH_PAGE_SIZE, FLASH_PAGE_SIZE + 1, 2 * FLASH_PAGE_SIZE,
             FLASH_ROW_SIZE}

ReadSessions ==
  { [offset |-> o, size |-> n, file_size |-> 0, file_data |-> Released] :
      o \in {0, FLASH_ROW_SIZE}, n \in ReadLens }

InitOps ==
  /\ pc = "idle"
  /\ op = "select"
  /\ called = {"select"}
  /\ err = ""
  /\ report = << >>
  /\ trace = << >>
  /\ spins = 0
  /\ busy = FALSE
  /\ target_options \in ReadSessions
  /\ options = target_options
  /\ target_device = devices[1]
  /\ dsu_did = devices[1].dsu_did
  /\ device = 1
  /\ addr = 0 /\ offs = 0 /\ size = ZERO32
  /\ number_of_rows = 0 /\ row = 0 /\ page = 0
  /\ flash = << >>
  /\ fault = {}
  /\ compared = << >>
  /\ buf = << >>
  /\ urow = << >>
  /\ urow0 = << >>
  /\ fuse_i = 0

NextOps ==
  \/ CallErase
  \/ EraseStart
  \/ EraseSleep
  \/ DeviceEraseDone
  \/ ErasePollAgain
  \/ ErasePollDone
  \/ CallLock
  \/ LockWrite
  \/ CallRead
  \/ ReadPage
  \/ ReadSave

\* the program runs on: a step of target_erase that can be taken is taken
SpecOps ==
  /\ InitOps
  /\ [][NextOps]_vars
  /\ WF_vars(EraseSleep)
  /\ WF_vars(ErasePollDone)

\* C14 as stated: target_lock performs one register write and no read: the
\* set-security-bit command 0xa516 to NVMCTRL_CTRLB, the command register.
C14_LockWritesCommandRegister ==
  (op = "lock" /\ pc = "idle") =>
    trace = << WriteWord(Word(16640, 16388), W32(42262)) >>

\* C17 as stated: for every read length n, target_read ends after exactly
\* ceil(n / page_size) block reads, at target_offset + k * page_size, and
\* then calls save_file once.
C17_ReadEndsAfterCeilPages ==
  op = "read" =>
    /\ BlockReads = 1..Len(trace)
    /\ \A k \in 1..Len(trace) :
         trace[k] = ReadBlock(Base + (k - 1) * FLASH_PAGE_SIZE, FLASH_PAGE_SIZE)
    /\ Len(trace) <= Ceil(target_options.size, FLASH_PAGE_SIZE)
    /\ Len(trace) = Ceil(target_options.size, FLASH_PAGE_SIZE) =>
         pc \in {"read_save", "idle"}
    /\ pc = "idle" =>
         report = << [kind |-> "save_file", size |-> target_options.size] >>

\* after the chip-erase write, before target_erase returns
EraseWaiting == op = "erase" /\ pc \in {"erase_sleep", "erase_poll"}

EraseReturned == op = "erase" /\ pc = "idle"

\* the accesses of target_erase, the reads that do not show DONE left out
EraseAccesses(st) ==
  << WriteWord(Word(16640, 8448), W32(16)), Sleep(100),
     ReadWord(Word(16640, 8448), st) >>

EraseSafe ==
  op = "erase" =>
    /\ Len(trace) <= 3
    /\ \A k \in 1..Len(trace) :
         /\ trace[k] = EraseAccesses(trace[k].val)[k]
         /\ k = 3 => (trace[k].val[2] \div 256) % 2 = 1
    /\ pc = "idle" => (Len(trace) = 3 /\ ~busy)
    /\ (EraseWaiting /\ busy) => Len(trace) <= 2
    /\ pc = "erase_poll" => Len(trace) = 2

\* C18: target_erase writes the chip-erase bit to the DSU control/status
\* register, sleeps, then polls that register and returns only after a poll
\* has shown the done flag; while the device does not report done it does
\* not return and issues nothing but polls; once the device reports done it
\* eventually returns.
C18_EraseWaitsForDone ==
  /\ []EraseSafe
  /\ (EraseWaiting /\ ~busy) ~> EraseReturned

C18_Witness ==
  /\ EraseReturned
  /\ Len(trace) = 3
  /\ spins = 0
  /\ ~busy

(***************************************************************************)
(* target_fuse.                                                            *)
(***************************************************************************)
\* #define USER_ROW_ADDR 0x00804000
USER_ROW_ADDR == 8404992

\* #define USER_ROW_PAGE_SIZE 16
USER_ROW_PAGE_SIZE == 16

\* #define NVMCTRL_CMD_EP 0xa500
NVMCTRL_CMD_EP == W32(42240)

\* #define NVMCTRL_CMD_WQW 0xa504
NVMCTRL_CMD_WQW == W32(42244)

\* the indices of uint8_t buf[USER_ROW_SIZE]
RowIndex == 0..(USER_ROW_SIZE - 1)

\* USER_ROW_SIZE / USER_ROW_PAGE_SIZE, the bound of the loop of line 333
SubPages == USER_ROW_SIZE \div USER_ROW_PAGE_SIZE

\* bit k of a byte row, bit 0 = least significant bit of byte 0
BitOf(b, k) == (b[k \div 8] \div (2 ^ (k % 8))) % 2

\* extract_value(b, s, e) of the utilities: the unsigned integer formed by
\* bits s..e of the row
RECURSIVE ExtractValue(_, _, _)
ExtractValue(b, s, e) ==
  IF s > e THEN 0 ELSE BitOf(b, s) + 2 * ExtractValue(b, s + 1, e)

\* variant: the bits of a touched byte that lie outside s..e are cleared
AppliedBitClearing(b, v, s, e, k) ==
  IF s <= k /\ k <= e THEN (v \div (2 ^ (k - s))) % 2 ELSE 0

\* the bit apply_value leaves at position k
AppliedBit(b, v, s, e, k) ==
  IF s <= k /\ k <= e THEN (v \div (2 ^ (k - s))) % 2 ELSE BitOf(b, k)

AppliedByte(b, v, s, e, i) ==
  LET n(j) == AppliedBit(b, v, s, e, 8 * i + j)
  IN n(0) + 2 * n(1) + 4 * n(2) + 8 * n(3) + 16 * n(4) + 32 * n(5)
       + 64 * n(6) + 128 * n(7)

\* apply_value(b, v, s, e) of the utilities for 0 <= s <= e: the low
\* e-s+1 bits of v go to bits s..e, every other bit is kept
ApplyValue(b, v, s, e) ==
  [i \in RowIndex |->
     IF i < s \div 8 \/ i > e \div 8 THEN b[i] ELSE AppliedByte(b, v, s, e, i)]

\* apply_value called with start = -1: the bit index is negative, which the
\* utilities do not define; byte 0 is the byte such a call can reach
ApplyOutcomes(b, v, s, e) ==
  IF s < 0
  THEN {b, [b EXCEPT ![0] = 0], [b EXCEPT ![0] = 255]}
  ELSE {ApplyValue(b, v, s, e)}

\* byte i of the file loaded as target_options.fuse_data
FuseDataByte(d, i) == (i * d + 7) % 256

\* contents of the user row before the call
RowPatterns ==
  { [i \in RowIndex |-> ERASED], [i \in RowIndex |-> (i * 7 + 163) % 256] }

ErasedRow == [i \in RowIndex |-> ERASED]

\* the bit ranges of a request; <<-1, -1>> is "no range given"
FuseRanges == { << -1, -1 >>, << 0, 3 >>, << 6, 17 >> }

\* the fuse files of a request: no file, a short one, one longer than the row
FuseFiles ==
  { [name |-> FALSE, size |-> 0, data |-> 0],
    [name |-> TRUE, size |-> 3, data |-> 3],
    [name |-> TRUE, size |-> USER_ROW_SIZE + 88, data |-> 3] }

FuseValues == {5, 2748}

FuseSessions ==
  { [fuse_section |-> sec, fuse_read |-> r, fuse_write |-> w, fuse_verify |-> v,
     fuse_name |-> f.name, fuse_size |-> f.size, fuse_data |-> f.data,
     fuse_start |-> rg[1], fuse_end |-> rg[2], fuse_value |-> val] :
      sec \in {0, 1}, r \in BOOLEAN, w \in BOOLEAN, v \in BOOLEAN,
      f \in FuseFiles, rg \in FuseRanges, val \in FuseValues }

\* line 275
ReadAll(o) == -1 = o.fuse_start

\* lines 276-277
FuseSize(o) == IF o.fuse_size < USER_ROW_SIZE THEN o.fuse_size ELSE USER_ROW_SIZE

\* variant: every section is accepted
SectionAny(o) == TRUE

\* line 280: the condition of check()
SectionSupported(o) == 0 = o.fuse_section

\* variant: a verification writes first
WriteOrVerifyRequested(o) == o.fuse_write \/ o.fuse_verify

\* line 309
WriteRequested(o) == o.fuse_write

\* variant: the read-all test comes before the test of the fuse file
VerifyModeRangeFirst(o) ==
  IF ReadAll(o) THEN "range_required"
  ELSE IF o.fuse_name THEN "bytes"
  ELSE "bits"

\* lines 351, 363, 367: the branch the verification takes
VerifyMode(o) ==
  IF o.fuse_name THEN "bytes"
  ELSE IF ReadAll(o) THEN "range_required"
  ELSE "bits"

\* where target_fuse goes after the read phase, and after the write phase
AfterShow(o) ==
  IF WriteRequested(o) THEN "fuse_modify"
  ELSE IF o.fuse_verify THEN "fuse_reread" ELSE "idle"

AfterWrite(o) == IF o.fuse_verify THEN "fuse_reread" ELSE "idle"

\* lines 272-277
CallFuse ==
  /\ pc = "idle"
  /\ "fuse" \notin called
  /\ op' = "fuse"
  /\ called' = called \cup {"fuse"}
  /\ trace' = << >>
  /\ size' = FuseSize(target_options)
  /\ urow0' = urow
  /\ pc' = "fuse_check"
  /\ UNCHANGED << err, report, spins, busy, selVars, addr, offs, number_of_rows,
                  row, page, memVars, compared, buf, urow, fuse_i >>

\* lines 280-281
FuseCheck ==
  /\ pc = "fuse_check"
  /\ IF SectionSupported(target_options)
     THEN pc' = "fuse_read_row" /\ err' = err
     ELSE pc' = "exit" /\ err' = "unsupported fuse section %d"
  /\ UNCHANGED << op, called, report, trace, spins, busy, selVars, progVars,
                  memVars, compared, fuseVars >>

\* line 283
FuseReadRow ==
  /\ pc = "fuse_read_row"
  /\ trace' = Append(trace, ReadBlock(USER_ROW_ADDR, USER_ROW_SIZE))
  /\ buf' = urow
  /\ pc' = IF target_options.fuse_read THEN "fuse_show"
           ELSE AfterShow(target_options)
  /\ UNCHANGED << op, called, err, report, spins, busy, selVars, progVars,
                  memVars, compared, urow, urow0, fuse_i >>

\* lines 285-307
FuseShow ==
  /\ pc = "fuse_show"
  /\ report' =
       Append(report,
         IF target_options.fuse_name
         THEN [kind |-> "save_file", size |-> USER_ROW_SIZE, data |-> buf]
         ELSE IF ReadAll(target_options)
         THEN [kind |-> "fuses_row", size |-> USER_ROW_SIZE, data |-> buf]
         ELSE [kind |-> "fuses", size |-> 0,
               data |-> ExtractValue(buf, target_options.fuse_start,
                                     target_options.fuse_end)])
  /\ pc' = AfterShow(target_options)
  /\ UNCHANGED << op, called, err, trace, spins, busy, selVars, progVars,
                  memVars, compared, fuseVars >>

\* lines 311-320
FuseModify ==
  /\ pc = "fuse_modify"
  /\ buf' \in
       IF target_options.fuse_name
       THEN { [i \in RowIndex |->
                 IF i < size THEN FuseDataByte(target_options.fuse_data, i)
                 ELSE buf[i]] }
       ELSE ApplyOutcomes(buf, target_options.fuse_value,
                          target_options.fuse_start, target_options.fuse_end)
  /\ pc' = "fuse_row_addr"
  /\ UNCHANGED << op, called, err, report, trace, spins, busy, selVars, progVars,
                  memVars, compared, urow, urow0, fuse_i >>

\* line 322
FuseRowAddr ==
  pc = "fuse_row_addr" /\ Store(NVMCTRL_ADDR, W32(USER_ROW_ADDR), "fuse_ep")

\* line 324: the device erases the page at NVMCTRL_ADDR, the user row
FuseErasePage ==
  /\ pc = "fuse_ep"
  /\ trace' = Append(trace, WriteWord(NVMCTRL_CTRLB, NVMCTRL_CMD_EP))
  /\ busy' = TRUE
  /\ spins' = 0
  /\ urow' = ErasedRow
  /\ pc' = "fuse_ep_wait"
  /\ UNCHANGED << op, called, err, report, selVars, progVars, memVars, compared,
                  buf, urow0, fuse_i >>

\* line 325
FuseErasePageWait ==
  /\ PollReady("fuse_ep_wait")
  /\ pc' = "fuse_pbc"
  /\ UNCHANGED << op, called, err, report, selVars, progVars, memVars, compared,
                  fuseVars >>

\* line 327
FuseClear == pc = "fuse_pbc" /\ Command(NVMCTRL_CMD_PBC, "fuse_pbc_wait")

\* lines 328-333
FuseClearWait ==
  /\ PollReady("fuse_pbc_wait")
  /\ addr' = USER_ROW_ADDR
  /\ offs' = 0
  /\ fuse_i' = 0
  /\ pc' = "fuse_sub_addr"
  /\ UNCHANGED << op, called, err, report, selVars, size, number_of_rows, row,
                  page, memVars, compared, buf, urow, urow0 >>

\* line 335
FuseSubAddr ==
  pc = "fuse_sub_addr"
    /\ Store(NVMCTRL_ADDR, W32(USER_ROW_ADDR), "fuse_sub_load")

\* line 337: the device takes the quad word at the address it is written to
FuseSubLoad ==
  /\ pc = "fuse_sub_load"
  /\ trace' = Append(trace, WriteBlock(addr, offs, USER_ROW_PAGE_SIZE))
  /\ urow' = [i \in RowIndex |->
                IF /\ addr - USER_ROW_ADDR <= i
                   /\ i < addr - USER_ROW_ADDR + USER_ROW_PAGE_SIZE
                THEN buf[offs + (i - (addr - USER_ROW_ADDR))]
                ELSE urow[i]]
  /\ pc' = "fuse_wqw"
  /\ UNCHANGED << op, called, err, report, spins, busy, selVars, progVars,
                  memVars, compared, buf, urow0, fuse_i >>

\* line 339
FuseSubWrite == pc = "fuse_wqw" /\ Command(NVMCTRL_CMD_WQW, "fuse_wqw_wait")

\* lines 340-344 and the loop test of line 333
FuseSubWriteWait ==
  /\ PollReady("fuse_wqw_wait")
  /\ addr' = addr + USER_ROW_PAGE_SIZE
  /\ offs' = offs + USER_ROW_PAGE_SIZE
  /\ fuse_i' = fuse_i + 1
  /\ pc' = IF fuse_i + 1 < SubPages THEN "fuse_sub_addr"
           ELSE AfterWrite(target_options)
  /\ UNCHANGED << op, called, err, report, selVars, size, number_of_rows, row,
                  page, memVars, compared, buf, urow, urow0 >>

\* lines 325, 328, 340: a read of the poll loop that sees the device not ready
FusePollAgain ==
  /\ pc \in {"fuse_ep_wait", "fuse_pbc_wait", "fuse_wqw_wait"}
  /\ \E st \in NvmStatusValues : ~IsReady(st)
  /\ spins < MaxSpin
  /\ spins' = spins + 1
  /\ UNCHANGED << pc, op, called, err, report, trace, busy, selVars, progVars,
                  memVars, compared, fuseVars >>

\* line 349
FuseReread ==
  /\ pc = "fuse_reread"
  /\ trace' = Append(trace, ReadBlock(USER_ROW_ADDR, USER_ROW_SIZE))
  /\ buf' = urow
  /\ pc' = "fuse_compare"
  /\ UNCHANGED << op, called, err, report, spins, busy, selVars, progVars,
                  memVars, compared, urow, urow0, fuse_i >>

\* the first index below n at which the fuse file and the row differ, n if none
FuseFirstDiff(o, b, n) ==
  IF \E i \in 0..(n - 1) : FuseDataByte(o.fuse_data, i) # b[i]
  THEN CHOOSE i \in 0..(n - 1) :
         /\ FuseDataByte(o.fuse_data, i) # b[i]
         /\ \A j \in 0..(i - 1) : FuseDataByte(o.fuse_data, j) = b[j]
  ELSE n

\* lines 351-361
FuseCompareBytes ==
  LET i == FuseFirstDiff(target_options, buf, size)
  IN /\ compared' = Append(compared, [kind |-> "bytes", from |-> 0, to |-> i])
     /\ IF i < size
        THEN /\ report' = Append(report,
                  [kind |-> "fuse_byte", size |-> i,
                   data |-> << FuseDataByte(target_options.fuse_data, i),
                               buf[i] >>])
             /\ err' = "fuse verification failed"
             /\ pc' = "exit"
        ELSE /\ pc' = "idle"
             /\ UNCHANGED << report, err >>

\* lines 363-366
FuseRangeRequired ==
  /\ err' = "please specify fuse bit range for verification"
  /\ pc' = "exit"
  /\ UNCHANGED << report, compared >>

\* lines 367-377
FuseCompareBits ==
  LET value == ExtractValue(buf, target_options.fuse_start,
                            target_options.fuse_end)
  IN /\ compared' = Append(compared,
            [kind |-> "bits", from |-> target_options.fuse_start,
             to |-> target_options.fuse_end])
     /\ report' = report
     /\ IF target_options.fuse_value # value
        THEN /\ err' = "fuse verification failed: expected 0x%x (%u), got 0x%x (%u)"
             /\ pc' = "exit"
        ELSE /\ pc' = "idle"
             /\ err' = err

\* lines 351-377
FuseCompare ==
  /\ pc = "fuse_compare"
  /\ LET mode == VerifyMode(target_options)
     IN IF mode = "bytes" THEN FuseCompareBytes
        ELSE IF mode = "range_required" THEN FuseRangeRequired
        ELSE FuseCompareBits
  /\ UNCHANGED << op, called, trace, spins, busy, selVars, progVars, memVars,
                  fuseVars >>

InitFuse ==
  /\ pc = "idle"
  /\ op = "select"
  /\ called = {"select"}
  /\ err = ""
  /\ report = << >>
  /\ trace = << >>
  /\ spins = 0
  /\ busy = FALSE
  /\ target_options \in FuseSessions
  /\ options = target_options
  /\ target_device = devices[1]
  /\ dsu_did = devices[1].dsu_did
  /\ device = 1
  /\ addr = 0 /\ offs = 0 /\ size = 0
  /\ number_of_rows = 0 /\ row = 0 /\ page = 0
  /\ flash = << >>
  /\ fault = {}
  /\ compared = << >>
  /\ buf = [i \in RowIndex |-> 0]
  /\ urow \in RowPatterns
  /\ urow0 = urow
  /\ fuse_i = 0

NextFuse ==
  \/ CallFuse
  \/ FuseCheck
  \/ FuseReadRow
  \/ FuseShow
  \/ FuseModify
  \/ FuseRowAddr
  \/ FuseErasePage
  \/ FuseErasePageWait
  \/ FuseClear
  \/ FuseClearWait
  \/ FuseSubAddr
  \/ FuseSubLoad
  \/ FuseSubWrite
  \/ FuseSubWriteWait
  \/ FusePollAgain
  \/ FuseReread
  \/ FuseCompare

SpecFuse == InitFuse /\ [][NextFuse]_vars

(***************************************************************************)
(* Properties of target_fuse (SpecFuse).                                   *)
(***************************************************************************)
\* target_fuse has returned or has called error_exit
FuseOver == op = "fuse" /\ pc \in {"idle", "exit"}

RangeRequired == "please specify fuse bit range for verification"

\* C11, as stated: a verification with fuse_start = -1 of the supported
\* section always ends in the range-required error and compares nothing,
\* whether or not a fuse file is set.
C11_Original ==
  (/\ FuseOver
   /\ SectionSupported(target_options)
   /\ target_options.fuse_verify
   /\ ReadAll(target_options))
    => (pc = "exit" /\ err = RangeRequired /\ compared = << >>)

\* C11, amended: a verification with fuse_start = -1 of the supported section
\* ends in the range-required error, with no comparison made, when no fuse
\* file is set; when a fuse file is set the bytes of the file are compared
\* with the re-read row and the range-required error is not raised.
C11_RangeRequiredWithoutFile ==
  (/\ FuseOver
   /\ SectionSupported(target_options)
   /\ target_options.fuse_verify
   /\ ReadAll(target_options))
    => IF target_options.fuse_name
       THEN /\ Len(compared) = 1
            /\ compared[1].kind = "bytes"
            /\ err # RangeRequired
       ELSE pc = "exit" /\ err = RangeRequired /\ compared = << >>

C11_Witness ==
  /\ FuseOver
  /\ target_options.fuse_verify
  /\ target_options.fuse_write
  /\ ~target_options.fuse_name
  /\ ReadAll(target_options)
  /\ fuse_i = SubPages
  /\ err = RangeRequired

Unsupported == "unsupported fuse section %d"

\* C12: with a fuse section other than 0, target_fuse makes no transport
\* access at all and ends in the unsupported-fuse-section error, whatever the
\* read, write and verify flags are; the device row is left as it was.
C12_UnsupportedSectionNoAccess ==
  (op = "fuse" /\ ~(0 = target_options.fuse_section))
    => /\ trace = << >>
       /\ report = << >>
       /\ urow = urow0
       /\ pc \in {"fuse_check", "exit"}
       /\ (pc = "exit" => err = Unsupported)

C12_Witness ==
  /\ op = "fuse"
  /\ pc = "exit"
  /\ target_options.fuse_section = 1
  /\ target_options.fuse_read
  /\ target_options.fuse_write
  /\ target_options.fuse_verify
  /\ err = Unsupported
  /\ trace = << >>

\* the events target_fuse may issue when nothing is written
IsRowRead(e) == e = ReadBlock(USER_ROW_ADDR, USER_ROW_SIZE)

\* C19: without the write flag target_fuse issues only block reads of the
\* fuse row (one on entry, one more for a verification), no register write,
\* no NVM command and no block write, and the device row is not changed.
C19_NoWriteFlagOnlyReads ==
  (op = "fuse" /\ ~target_options.fuse_write)
    => /\ \A k \in 1..Len(trace) : IsRowRead(trace[k])
       /\ Len(trace) <= (IF target_options.fuse_verify THEN 2 ELSE 1)
       /\ urow = urow0
       /\ ~busy

C19_Witness ==
  /\ FuseOver
  /\ SectionSupported(target_options)
  /\ ~target_options.fuse_write
  /\ target_options.fuse_read
  /\ target_options.fuse_verify
  /\ Len(trace) = 2
  /\ Len(report) >= 1

\* C15: in the write phase the i-th block write (i from 0) carries the 16
\* bytes of the local copy at offset 16*i to address row base + 16*i, the
\* access before it sets NVMCTRL_ADDR to that same address, and it is followed
\* by the write-quad-word command and a ready poll.
C15_SubPageAddressRegister ==
  op = "fuse" =>
    \A k \in BlockWrites :
      LET i == Rank(BlockWrites, k)
          a == USER_ROW_ADDR + i * USER_ROW_PAGE_SIZE
      IN /\ trace[k] = WriteBlock(a, i * USER_ROW_PAGE_SIZE, USER_ROW_PAGE_SIZE)
         /\ trace[k - 1] = WriteWord(NVMCTRL_ADDR, W32(a))
         /\ (k + 1 <= Len(trace) => IsCommand(trace[k + 1], NVMCTRL_CMD_WQW))
         /\ (k + 2 <= Len(trace) =>
               /\ trace[k + 2].op = "read_word"
               /\ trace[k + 2].addr = NVMCTRL_INTFLAG_STATUS
               /\ IsReady(trace[k + 2].val))

\* the write phase is over and the local copy is still the one written
WriteCommitted ==
  /\ op = "fuse"
  /\ target_options.fuse_write
  /\ fuse_i = SubPages
  /\ pc = AfterWrite(target_options)

\* the block writes of the trace that carry byte i of the row
Carriers(i) ==
  {k \in BlockWrites :
     /\ Val(trace[k].addr) - USER_ROW_ADDR <= i
     /\ i < Val(trace[k].addr) - USER_ROW_ADDR + trace[k].len}

\* the row the block writes of the call carry
Committed ==
  [i \in RowIndex |->
     LET k == CHOOSE k \in Carriers(i) : TRUE
     IN buf[trace[k].offs + (i - (Val(trace[k].addr) - USER_ROW_ADDR))]]

\* C16: the row target_fuse commits covers the whole row, is what the device
\* then holds, and equals the row read at the start of the call except that,
\* with a fuse file, the first min(fuse_size, 512) bytes are those of the
\* file, and otherwise bits fuse_start..fuse_end are the low bits of
\* fuse_value, which an extract of the same range returns.
C16_ReadModifyWrite ==
  (WriteCommitted /\ (target_options.fuse_name \/ ~ReadAll(target_options)))
    => /\ \A i \in RowIndex : Cardinality(Carriers(i)) = 1
       /\ urow = Committed
       /\ IF target_options.fuse_name
          THEN \A i \in RowIndex :
                 Committed[i] =
                   IF i < target_options.fuse_size
                   THEN FuseDataByte(target_options.fuse_data, i)
                   ELSE urow0[i]
          ELSE LET s == target_options.fuse_start
                   e == target_options.fuse_end
                   v == target_options.fuse_value
               IN /\ \A k \in 0..(8 * USER_ROW_SIZE - 1) :
                       BitOf(Committed, k) =
                         IF s <= k /\ k <= e THEN (v \div (2 ^ (k - s))) % 2
                         ELSE BitOf(urow0, k)
                  /\ ExtractValue(Committed, s, e) = v % (2 ^ (e - s + 1))

C16_Witness ==
  /\ WriteCommitted
  /\ ~target_options.fuse_name
  /\ target_options.fuse_start = 6
  /\ target_options.fuse_end = 17
  /\ target_options.fuse_value = 2748
  /\ urow0[0] = 163
  /\ ExtractValue(urow, 6, 17) = 2748
  /\ urow[2] = (urow0[2] \div 4) * 4 + 2


==============================================================================
